---- MODULE Spec2Model ----
(***************************************************************************)
(* Model of the MOT bulk-download synchronisation engine:                  *)
(*   data_runner/gcp_upload.py    GCPUploader  (stage, MERGE, drop)         *)
(*   data_runner/data_processor.py DataProcessor (normalisation)            *)
(*   data_runner/data_puller.py   DataPuller   (dedup-aware transfer)       *)
(*   main.py                      perform_weekly_delta_merge                *)
(* Warehouse tables are bags (multisets) of rows: BigQuery tables carry no  *)
(* order and no key constraint.  Files are sequences of records.            *)
(***************************************************************************)
EXTENDS Integers, Sequences, FiniteSets, Bags, TLC

\* ------------------------------------------------------------------ bounds
MaxBatch == 2      \* longest normalized file handed to the uploader
MaxBulk == 1       \* longest bulk file handed to create_table

\* ------------------------------------------------------------- value sets
Keys == {"K1", "K2"}                     \* registrations
Makes == {"FORD", "AUDI"}                \* one descriptive (non-key) column
ActingMods == {"DELETED", "UPDATED", "CREATED"}
UpsertMods == {"UPDATED", "CREATED"}
Mods == ActingMods \cup {"NONE"}         \* "NONE": modification unset / other
NoLimit == -1                            \* limit=None

Rows == [registration : Keys, modification : Mods, make : Makes]
\* records of delta files: every modification of K1 (creations and updates
\* with either make) and a creation of K2
DeltaRows ==
  [registration : {"K1"}, modification : UpsertMods, make : Makes]
  \cup [registration : {"K1"}, modification : {"DELETED", "NONE"},
        make : {"FORD"}]
  \cup [registration : {"K2"}, modification : {"CREATED"}, make : {"FORD"}]
\* records of bulk snapshots carry no modification
BulkRows == [registration : Keys, modification : {"NONE"}, make : Makes]

SeqsUpTo(S, n) == UNION {[1..k -> S] : k \in 0..n}
DeltaFiles == SeqsUpTo(DeltaRows, MaxBatch)
BulkFiles == SeqsUpTo(BulkRows, MaxBulk)
Limits == {NoLimit, 1}        \* create_table is run with a row limit too
MergeLimits == {NoLimit}      \* the callers of merge_delta pass no limit

\* ------------------------------------------ DataProcessor: value sets
MaxLines == 2      \* longest compressed member, in lines
MaxCalls == 3      \* process_folder calls followed on one period folder

MemberNames == {1, 2}    \* *.json.gz member names, ordered as sorted() orders them

\* a line of a member: a JSON object, a line that is not valid JSON, a valid
\* JSON value that is no object, or a line of white space only
RecA == [registration |-> "K1", modification |-> "CREATED", make |-> "FORD"]
RecB == [registration |-> "K1", modification |-> "UPDATED", make |-> "AUDI"]
MemberLines ==
  {[kind |-> "object", rec |-> RecA], [kind |-> "object", rec |-> RecB],
   [kind |-> "invalid"], [kind |-> "blank"]}
MemberContents == SeqsUpTo(MemberLines, MaxLines)

Digits == {"0", "1", "2", "3", "4", "5", "6", "7", "8", "9"}
DigitVal(c) ==
  CASE c = "0" -> 0 [] c = "1" -> 1 [] c = "2" -> 2 [] c = "3" -> 3
    [] c = "4" -> 4 [] c = "5" -> 5 [] c = "6" -> 6 [] c = "7" -> 7
    [] c = "8" -> 8 [] c = "9" -> 9
DigitChar(n) ==
  CASE n = 0 -> "0" [] n = 1 -> "1" [] n = 2 -> "2" [] n = 3 -> "3"
    [] n = 4 -> "4" [] n = 5 -> "5" [] n = 6 -> "6" [] n = 7 -> "7"
    [] n = 8 -> "8" [] n = 9 -> "9"

\* ---------------------------------------------- DataPuller: value sets
MaxEntries == 2    \* longest delta list of a manifest

\* manifest entries: filename (directory part and basename) and downloadUrl;
\* DeltaC has the basename of DeltaA under another directory
DeltaA ==
  [filename |-> [dir |-> "", base |-> "delta-light-vehicle_10-01-2026.zip"],
   downloadUrl |-> "U1"]
DeltaB ==
  [filename |-> [dir |-> "", base |-> "delta-light-vehicle_11-01-2026.zip"],
   downloadUrl |-> "U2"]
DeltaC ==
  [filename |-> [dir |-> "old/", base |-> "delta-light-vehicle_10-01-2026.zip"],
   downloadUrl |-> "U3"]
BulkA ==
  [filename |-> [dir |-> "", base |-> "bulk-light-vehicle_02-02-2026.zip"],
   downloadUrl |-> "U4"]
DeltaEntries == {DeltaA, DeltaB, DeltaC}
BaseNames ==
  {"delta-light-vehicle_10-01-2026.zip", "delta-light-vehicle_11-01-2026.zip",
   "bulk-light-vehicle_02-02-2026.zip"}

\* the manifest the endpoint serves: either list may be missing
Manifests ==
  {m \in UNION {[K -> SeqsUpTo(DeltaEntries \cup {BulkA}, MaxEntries)] :
                  K \in SUBSET {"bulk", "delta"}} :
     /\ "delta" \in DOMAIN m => \A i \in 1..Len(m.delta) : m.delta[i] \in DeltaEntries
     /\ "bulk" \in DOMAIN m => (Len(m.bulk) <= 1
                                /\ \A i \in 1..Len(m.bulk) : m.bulk[i] = BulkA)}

\* ------------------------------------------ MOTOAuth2Client: value sets
MaxAuthCalls == 3  \* get_access_token / clear_cache calls followed on one client

Secrets == {"T1", "T2"}          \* access-token strings the provider issues
AppKey == "app"                  \* cache key of the client-credentials token
UserKey == "user"                \* cache key of a token held for an account
TheAccount == "acct"

TokenEntry(secret) == [secret |-> secret, expires_on |-> "3600"]

\* what a token cache can hold (the dict msal serializes): credential type ->
\* entries; a type is present once an entry of it was added
NoCache == <<>>
AppCache == [t \in {"AccessToken"} |-> [k \in {AppKey} |-> TokenEntry("T1")]]
UserCache ==
  [t \in {"AccessToken", "Account"} |->
     IF t = "Account" THEN {TheAccount}
     ELSE [k \in {AppKey, UserKey} |-> TokenEntry("T1")]]

\* the cache file: absent, a JSON object, or text that is no JSON
AbsentFile == [kind |-> "absent"]
GarbageFile == [kind |-> "garbage"]
ObjectFile(data) == [kind |-> "object", data |-> data]
AuthFiles == {AbsentFile, GarbageFile, ObjectFile(NoCache), ObjectFile(AppCache),
              ObjectFile(UserCache)}

\* cache files _is_token_expired is followed on. A JSON value that is no
\* object, and a file that exists but cannot be opened, are files too.
\* expires_on of an entry: a JSON number, a string of digits, a string that
\* is no number, or no such key; AccessToken lists its entries in file order
Nows == {0, 100, 1000}
ExpiryOffsets == {-1, 0, 30, 59, 60, 61, 120}
ExpiresOnValues ==
  [type : {"number", "digits"}, val : {0} \cup {n + o : n \in Nows, o \in ExpiryOffsets}]
  \cup {[type |-> "text", val |-> 0], [type |-> "missing", val |-> 0]}
NonObjectFile == [kind |-> "nonobject"]
UnopenableFile == [kind |-> "unopenable"]
ExpiryFiles ==
  {AbsentFile, GarbageFile, NonObjectFile, UnopenableFile, ObjectFile(<<>>),
   ObjectFile([t \in {"Account"} |-> {TheAccount}]),
   ObjectFile([t \in {"AccessToken"} |-> <<>>])}
  \cup {ObjectFile([t \in {"AccessToken"} |-> <<[expires_on |-> e]>>]) :
          e \in ExpiresOnValues}
  \cup {ObjectFile([t \in {"AccessToken"} |->
                     <<[expires_on |-> e1], [expires_on |-> e2]>>]) :
          e1 \in {[type |-> "missing", val |-> 0], [type |-> "number", val |-> 0],
                  [type |-> "digits", val |-> 30]},
          e2 \in {[type |-> "digits", val |-> 1120],
                  [type |-> "digits", val |-> 30]}}

\* ----------------------------------------- the trigger: value sets
MaxRequests == 3   \* GET /weekly-delta-merge requests followed
Requests == 1..MaxRequests

VARIABLES
  main,          \* rows of the main table (a bag)
  mainExists,    \* the main table exists in the dataset
  staging,       \* rows of <main>_staging (a bag)
  stagingExists, \* the staging table exists
  upc,           \* position inside GCPUploader.merge_delta
  uresult,       \* outcome of the last uploader call: "none", "ok", "error"
  mainBefore,    \* main as it was when the current merge_delta call began
  batch,         \* the rows the current merge_delta call loaded into staging
  leftKeys,      \* keys of the acting rows the current call found in staging
  folderName,    \* name of the period folder, a sequence of characters
  gz,            \* the folder's *.json.gz members: present name -> lines
  outExists,     \* <data_dir>/<folder name>.json exists
  outFile,       \* its records, in file order
  pfResult,      \* what the last process_folder call returned
  pfReads,       \* members the last process_folder call opened
  pfWrote,       \* the last process_folder call opened the output for writing
  outBefore,     \* [exists, file]: the output as the last call found it
  gzBefore,      \* the members as the last call found them
  pfHist,        \* delete_originals of every process_folder call so far
  manifest,      \* what the bulk-download endpoint serves
  files,         \* downloads in data_dir: present basename -> content
  reqs,          \* network requests of the last DataPuller call, by kind
  dlResult,      \* how the last DataPuller call ended
  dlAllExisted,  \* every manifest entry had its file when the last call began
  dlChanged,     \* the last call created or changed a file of data_dir
  dlOp,          \* the DataPuller method called last
  dlValue,       \* the paths it returned (basenames); <<>> for None and []
  filesBefore,   \* data_dir as the last DataPuller call found it
  rpc,           \* position inside perform_weekly_delta_merge
  rerr,          \* the exception that ended the run, "" if none
  dirs,          \* period folders of data_dir: present name -> members
  outs,          \* normalized files of data_dir: present period -> records
  runPaths,      \* output_files of processor.run() in the current run
  todo,          \* what is left of the list the current loop of run() walks
  ri,            \* index of the upload loop over filepaths
  loads,         \* write dispositions of the staging loads of this run
  runMerges,     \* MERGE statements run by this run
  cache,         \* self.app.token_cache: the in-memory token cache
  hasStateChanged, \* token_cache.has_state_changed
  cacheFile,     \* the file at self.cache_file
  authOp,        \* the MOTOAuth2Client method called last
  gaForce,       \* force_refresh of the last get_access_token call
  gaSilent,      \* acquire_token_silent calls it made
  gaExchange,    \* acquire_token_for_client calls it made
  gaSource,      \* where its return value came from: "silent", "exchange", "none"
  gaReturn,      \* what it returned: a token string or "None"
  authCalls,     \* calls followed so far
  now,           \* int(time.time()) at the _is_token_expired call
  expResult,     \* what _is_token_expired did: "True", "False", "raised"
  tpc,           \* request -> position of the background task it added
  retryFile,     \* the normalized file merge_delta is run on again and again
  retryCalls,    \* merge_delta calls begun on it
  onceDone,      \* the MERGE statement of one of them has completed
  mainOnce,      \* main as that first completed MERGE left it
  gzOrig         \* the members the period folder held before any call

wvars ==
  <<main, mainExists, staging, stagingExists, upc, uresult, mainBefore, batch,
    leftKeys>>
nvars ==
  <<folderName, gz, outExists, outFile, pfResult, pfReads, pfWrote, outBefore,
    gzBefore, pfHist>>
pvars ==
  <<manifest, files, reqs, dlResult, dlAllExisted, dlChanged, dlOp, dlValue,
    filesBefore>>
rvars == <<rpc, rerr, dirs, outs, runPaths, todo, ri, loads, runMerges>>
avars ==
  <<cache, hasStateChanged, cacheFile, authOp, gaForce, gaSilent, gaExchange,
    gaSource, gaReturn, authCalls, now, expResult>>
cvars == <<tpc>>
hvars == <<retryFile, retryCalls, onceDone, mainOnce, gzOrig>>

\* ------------------------------------------------------------ bag helpers
RECURSIVE BagOfSeq(_)
BagOfSeq(s) ==
  IF s = <<>> THEN EmptyBag
  ELSE BagOfSeq(Tail(s)) (+) SetToBag({Head(s)})

Restrict(B, P(_)) == [x \in {y \in BagToSet(B) : P(y)} |-> B[x]]

\* rows of table B with registration k
RowsOf(B, k) == Restrict(B, LAMBDA r : r.registration = k)

KeysOf(B) == {r.registration : r \in BagToSet(B)}

\* first `limit` lines of the file (io.BytesIO of readline() x limit), or all
Take(file, limit) ==
  IF limit = NoLimit \/ limit >= Len(file) THEN file
  ELSE SubSeq(file, 1, limit)

\* ------------------------------------------- GCPUploader (gcp_upload.py)
LoadRows_Append(old, file, limit, disposition) ==
  old (+) BagOfSeq(Take(file, limit))
\* _load_to_table: the rows a load job writes, by write disposition
LoadRows(old, file, limit, disposition) ==
  IF disposition = "WRITE_TRUNCATE" THEN BagOfSeq(Take(file, limit))
  ELSE old (+) BagOfSeq(Take(file, limit))

\* the three WHEN clauses of merge_sql, in the order they are written
WhenMatchedDelete(d) == d.modification = "DELETED"
WhenMatchedUpdate(d) == d.modification \in {"UPDATED", "CREATED"}
WhenNotMatchedInsert_Any(d) == TRUE
WhenNotMatchedInsert(d) == d.modification \in {"CREATED", "UPDATED"}

OnCondition_Any(m, d) == TRUE
\* ON main.registration = delta.registration
OnCondition(m, d) == m.registration = d.registration

\* staged rows for which some WHEN MATCHED clause acts on main row m
Acting(stg, m) ==
  Restrict(stg, LAMBDA d : OnCondition(m, d)
                           /\ (WhenMatchedDelete(d) \/ WhenMatchedUpdate(d)))

\* the warehouse rejects a MERGE that would update or delete one target row
\* from more than one source row
MergeConflict(mn, stg) ==
  \E m \in BagToSet(mn) : BagCardinality(Acting(stg, m)) > 1

TheActing(stg, m) == CHOOSE d \in BagToSet(Acting(stg, m)) : TRUE

\* UPDATE SET main.c = delta.c for every staging column c but registration
UpdateRow(m, d) ==
  [f \in DOMAIN m |->
     IF f \in DOMAIN d \ {"registration"} THEN d[f] ELSE m[f]]

MergeResult_Append(mn, stg) ==
  mn (+) Restrict(stg, LAMBDA d : WhenNotMatchedInsert(d))
\* the main table after the MERGE statement has run (no conflict)
MergeResult(mn, stg) ==
  LET untouched == Restrict(mn, LAMBDA m : Acting(stg, m) = EmptyBag
                                  \/ WhenMatchedDelete(TheActing(stg, m)))
      kept      == Restrict(untouched, LAMBDA m : Acting(stg, m) = EmptyBag)
      toUpdate  == Restrict(mn, LAMBDA m : Acting(stg, m) # EmptyBag
                                  /\ ~WhenMatchedDelete(TheActing(stg, m)))
      updated   == BagOfAll(LAMBDA m : UpdateRow(m, TheActing(stg, m)), toUpdate)
      inserted  == Restrict(stg, LAMBDA d :
                      WhenNotMatchedInsert(d)
                      /\ \A m \in BagToSet(mn) : ~OnCondition(m, d))
  IN  kept (+) updated (+) inserted

\* merge_delta, step 1: load the file into staging (WRITE_TRUNCATE)
MergeDeltaStage(file, limit) ==
  /\ upc = "idle"
  /\ mainBefore' = main
  /\ leftKeys' = {d.registration : d \in {e \in BagToSet(staging) :
                                            e.modification \in ActingMods}}
  /\ staging' = LoadRows(staging, file, limit, "WRITE_TRUNCATE")
  /\ stagingExists' = TRUE
  /\ batch' = BagOfSeq(Take(file, limit))
  /\ upc' = "staged"
  /\ uresult' = "none"
  /\ UNCHANGED <<main, mainExists>>

\* merge_delta, step 1, when job.result() of the load raises: nothing is
\* loaded, whatever the file
MergeDeltaStageFails ==
  /\ upc = "idle"
  /\ mainBefore' = main
  /\ leftKeys' = {d.registration : d \in {e \in BagToSet(staging) :
                                            e.modification \in ActingMods}}
  /\ upc' = "done"
  /\ uresult' = "merge_error"
  /\ UNCHANGED <<main, mainExists, staging, stagingExists, batch>>

\* merge_delta, step 2: build and run the MERGE statement
MergeDeltaMerge ==
  /\ upc = "staged"
  /\ \/ /\ mainExists
        /\ ~MergeConflict(main, staging)
        /\ main' = MergeResult(main, staging)
        /\ upc' = "merged"
        /\ UNCHANGED uresult
     \/ /\ upc' = "done"                      \* merge_job.result() raises
        /\ uresult' = "merge_error"
        /\ UNCHANGED main
  /\ UNCHANGED <<mainExists, staging, stagingExists, mainBefore, batch, leftKeys>>

MergeDeltaDrop_NoDrop ==
  /\ upc = "merged"
  /\ upc' = "done"
  /\ uresult' \in {"merge_ok", "merge_error"}
  /\ UNCHANGED <<main, mainExists, staging, stagingExists, mainBefore, batch,
                 leftKeys>>

\* merge_delta, step 3: drop the staging table and return
MergeDeltaDrop ==
  /\ upc = "merged"
  /\ upc' = "done"
  /\ \/ /\ stagingExists' = FALSE
        /\ staging' = EmptyBag
        /\ uresult' = "merge_ok"
     \/ /\ uresult' = "merge_error"           \* delete_table raises
        /\ UNCHANGED <<staging, stagingExists>>
  /\ UNCHANGED <<main, mainExists, mainBefore, batch, leftKeys>>

\* merge_delta has returned or raised: control is back with the caller
MergeDeltaReturn ==
  /\ upc = "done"
  /\ upc' = "idle"
  /\ uresult' = "none"
  /\ mainBefore' = EmptyBag
  /\ batch' = EmptyBag
  /\ leftKeys' = {}
  /\ UNCHANGED <<main, mainExists, staging, stagingExists>>

\* the process is stopped after merge_job.result() returned and before
\* delete_table is called: main is merged, staging is left in place
MergeDeltaInterrupted ==
  /\ upc = "merged"
  /\ upc' = "done"
  /\ uresult' = "interrupted"
  /\ UNCHANGED <<main, mainExists, staging, stagingExists, mainBefore, batch,
                 leftKeys>>

\* create_table: full load of a bulk file into main (WRITE_TRUNCATE)
CreateTable(file, limit) ==
  /\ upc = "idle"
  /\ \/ /\ main' = LoadRows(main, file, limit, "WRITE_TRUNCATE")
        /\ mainExists' = TRUE
     \/ UNCHANGED <<main, mainExists>>       \* job.result() raises
  /\ UNCHANGED <<staging, stagingExists, upc, uresult, mainBefore, batch,
                 leftKeys>>

\* --------------------------------------- DataProcessor (data_processor.py)
\* period folders the normalisation is followed on
NormFolders ==
  {<<"d", "e", "l", "t", "a", "-", "l", "i", "g", "h", "t", "-", "v", "e", "h", "i", "c", "l", "e", "_", "1", "0", "-", "0", "1", "-", "2", "0", "2", "6">>,
   <<"d", "e", "l", "t", "a", "-", "l", "i", "g", "h", "t", "-", "v", "e", "h", "i", "c", "l", "e", "_", "0", "1", "-", "0", "1", "-", "2", "0", "2", "6">>,
   <<"d", "e", "l", "t", "a", "-", "l", "i", "g", "h", "t", "-", "v", "e", "h", "i", "c", "l", "e", "_", "l", "a", "t", "e", "s", "t">>}
\* folder names the date rule is exercised on: month, year and leap-day
\* boundaries, dates no calendar has, and names without a dd-mm-yyyy suffix
DateFolders ==
  {<<"d", "e", "l", "t", "a", "-", "l", "i", "g", "h", "t", "-", "v", "e", "h", "i", "c", "l", "e", "_", "0", "1", "-", "0", "1", "-", "2", "0", "2", "6">>,
   <<"d", "e", "l", "t", "a", "-", "l", "i", "g", "h", "t", "-", "v", "e", "h", "i", "c", "l", "e", "_", "1", "0", "-", "0", "1", "-", "2", "0", "2", "6">>,
   <<"d", "e", "l", "t", "a", "-", "l", "i", "g", "h", "t", "-", "v", "e", "h", "i", "c", "l", "e", "_", "0", "1", "-", "0", "3", "-", "2", "0", "2", "4">>,
   <<"d", "e", "l", "t", "a", "-", "l", "i", "g", "h", "t", "-", "v", "e", "h", "i", "c", "l", "e", "_", "0", "1", "-", "0", "3", "-", "2", "0", "2", "5">>,
   <<"d", "e", "l", "t", "a", "-", "l", "i", "g", "h", "t", "-", "v", "e", "h", "i", "c", "l", "e", "_", "0", "1", "-", "0", "3", "-", "2", "1", "0", "0">>,
   <<"d", "e", "l", "t", "a", "-", "l", "i", "g", "h", "t", "-", "v", "e", "h", "i", "c", "l", "e", "_", "0", "1", "-", "0", "3", "-", "2", "0", "0", "0">>,
   <<"d", "e", "l", "t", "a", "-", "l", "i", "g", "h", "t", "-", "v", "e", "h", "i", "c", "l", "e", "_", "2", "9", "-", "0", "2", "-", "2", "0", "2", "4">>,
   <<"d", "e", "l", "t", "a", "-", "l", "i", "g", "h", "t", "-", "v", "e", "h", "i", "c", "l", "e", "_", "0", "1", "-", "0", "2", "-", "2", "0", "2", "6">>,
   <<"d", "e", "l", "t", "a", "-", "l", "i", "g", "h", "t", "-", "v", "e", "h", "i", "c", "l", "e", "_", "0", "1", "-", "0", "5", "-", "2", "0", "2", "6">>,
   <<"d", "e", "l", "t", "a", "-", "l", "i", "g", "h", "t", "-", "v", "e", "h", "i", "c", "l", "e", "_", "0", "1", "-", "0", "8", "-", "2", "0", "2", "6">>,
   <<"d", "e", "l", "t", "a", "-", "l", "i", "g", "h", "t", "-", "v", "e", "h", "i", "c", "l", "e", "_", "0", "1", "-", "1", "2", "-", "2", "0", "2", "5">>,
   <<"d", "e", "l", "t", "a", "-", "l", "i", "g", "h", "t", "-", "v", "e", "h", "i", "c", "l", "e", "_", "3", "1", "-", "1", "2", "-", "2", "0", "2", "5">>,
   <<"d", "e", "l", "t", "a", "-", "l", "i", "g", "h", "t", "-", "v", "e", "h", "i", "c", "l", "e", "_", "0", "2", "-", "0", "1", "-", "2", "0", "2", "6">>,
   <<"d", "e", "l", "t", "a", "-", "l", "i", "g", "h", "t", "-", "v", "e", "h", "i", "c", "l", "e", "_", "0", "1", "-", "1", "0", "-", "2", "0", "2", "6">>,
   <<"d", "e", "l", "t", "a", "-", "l", "i", "g", "h", "t", "-", "v", "e", "h", "i", "c", "l", "e", "_", "3", "1", "-", "0", "2", "-", "2", "0", "2", "6">>,
   <<"d", "e", "l", "t", "a", "-", "l", "i", "g", "h", "t", "-", "v", "e", "h", "i", "c", "l", "e", "_", "2", "9", "-", "0", "2", "-", "2", "0", "2", "5">>,
   <<"d", "e", "l", "t", "a", "-", "l", "i", "g", "h", "t", "-", "v", "e", "h", "i", "c", "l", "e", "_", "0", "0", "-", "0", "1", "-", "2", "0", "2", "6">>,
   <<"d", "e", "l", "t", "a", "-", "l", "i", "g", "h", "t", "-", "v", "e", "h", "i", "c", "l", "e", "_", "0", "1", "-", "1", "3", "-", "2", "0", "2", "6">>,
   <<"d", "e", "l", "t", "a", "-", "l", "i", "g", "h", "t", "-", "v", "e", "h", "i", "c", "l", "e", "_", "0", "1", "-", "0", "0", "-", "2", "0", "2", "6">>,
   <<"d", "e", "l", "t", "a", "-", "l", "i", "g", "h", "t", "-", "v", "e", "h", "i", "c", "l", "e", "_", "3", "2", "-", "0", "1", "-", "2", "0", "2", "6">>,
   <<"b", "u", "l", "k", "-", "l", "i", "g", "h", "t", "-", "v", "e", "h", "i", "c", "l", "e", "_", "2", "0", "2", "6", "-", "0", "1", "-", "1", "0">>,
   <<"d", "e", "l", "t", "a", "-", "l", "i", "g", "h", "t", "-", "v", "e", "h", "i", "c", "l", "e", "_", "1", "-", "0", "1", "-", "2", "0", "2", "6">>,
   <<"d", "e", "l", "t", "a", "-", "l", "i", "g", "h", "t", "-", "v", "e", "h", "i", "c", "l", "e", "_", "1", "0", "-", "0", "1", "-", "2", "6">>,
   <<"d", "e", "l", "t", "a", "-", "l", "i", "g", "h", "t", "-", "v", "e", "h", "i", "c", "l", "e", "_", "1", "0", "_", "0", "1", "_", "2", "0", "2", "6">>}

IsDigit(c) == c \in Digits

\* re.search(r"(\d{2}-\d{2}-\d{4})$", folder_name): the matched text, if any
DateSuffixMatches(name) ==
  /\ Len(name) >= 10
  /\ LET t == SubSeq(name, Len(name) - 9, Len(name)) IN
       /\ \A i \in {1, 2, 4, 5, 7, 8, 9, 10} : IsDigit(t[i])
       /\ t[3] = "-" /\ t[6] = "-"
DateSuffix(name) == SubSeq(name, Len(name) - 9, Len(name))

IsLeap(y) == y % 4 = 0 /\ (y % 100 # 0 \/ y % 400 = 0)
DaysInMonth(y, m) ==
  IF m = 2 THEN (IF IsLeap(y) THEN 29 ELSE 28)
  ELSE IF m \in {4, 6, 9, 11} THEN 30 ELSE 31

\* datetime.strptime(date_str, "%d-%m-%Y"): [ok, d, m, y]; not ok = ValueError
Strptime(t) ==
  LET d == 10 * DigitVal(t[1]) + DigitVal(t[2])
      m == 10 * DigitVal(t[4]) + DigitVal(t[5])
      y == 1000 * DigitVal(t[7]) + 100 * DigitVal(t[8])
           + 10 * DigitVal(t[9]) + DigitVal(t[10])
  IN  [ok |-> y >= 1 /\ m \in 1..12 /\ d >= 1 /\ d <= DaysInMonth(y, m),
       d |-> d, m |-> m, y |-> y]

\* proleptic Gregorian ordinal of a date, 01-01-0001 being day 1
DaysBeforeYear(y) ==
  (y - 1) * 365 + (y - 1) \div 4 - (y - 1) \div 100 + (y - 1) \div 400
RECURSIVE DaysBeforeMonth(_, _)
DaysBeforeMonth(y, m) ==
  IF m = 1 THEN 0 ELSE DaysBeforeMonth(y, m - 1) + DaysInMonth(y, m - 1)
ToOrdinal(dt) == DaysBeforeYear(dt.y) + DaysBeforeMonth(dt.y, dt.m) + dt.d

\* the date of an ordinal
FromOrdinal(n) ==
  LET n0 == n - 1
      n400 == n0 \div 146097
      r400 == n0 % 146097
      n100 == r400 \div 36524
      r100 == r400 % 36524
      n4 == r100 \div 1461
      r4 == r100 % 1461
      n1 == r4 \div 365
      r1 == r4 % 365
      year == n400 * 400 + 1 + n100 * 100 + n4 * 4 + n1
  IN  IF n1 = 4 \/ n100 = 4 THEN [d |-> 31, m |-> 12, y |-> year - 1]
      ELSE LET month == CHOOSE m \in 1..12 :
                          /\ DaysBeforeMonth(year, m) <= r1
                          /\ r1 < DaysBeforeMonth(year, m) + DaysInMonth(year, m)
           IN  [d |-> r1 - DaysBeforeMonth(year, month) + 1, m |-> month,
                y |-> year]

\* date_obj - timedelta(days=1); below 01-01-0001 it raises OverflowError
MinusOneDay(dt) == FromOrdinal(ToOrdinal(dt) - 1)

\* strftime("%d-%m-%Y")
Strftime(dt) ==
  <<DigitChar(dt.d \div 10), DigitChar(dt.d % 10), "-",
    DigitChar(dt.m \div 10), DigitChar(dt.m % 10), "-",
    DigitChar(dt.y \div 1000), DigitChar((dt.y \div 100) % 10),
    DigitChar((dt.y \div 10) % 10), DigitChar(dt.y % 10)>>

ExtractDateFromFolder_SameDay(folder_name) ==
  IF ~DateSuffixMatches(folder_name) THEN [raised |-> FALSE, str |-> <<>>]
  ELSE LET date_obj == Strptime(DateSuffix(folder_name)) IN
         IF ~date_obj.ok THEN [raised |-> TRUE, str |-> <<>>]
         ELSE [raised |-> FALSE, str |-> Strftime(date_obj)]

\* extract_date_from_folder: "" when the name has no date suffix, the date
\* of the day before otherwise; raised = the call raises
ExtractDateFromFolder(folder_name) ==
  IF ~DateSuffixMatches(folder_name) THEN [raised |-> FALSE, str |-> <<>>]
  ELSE LET date_obj == Strptime(DateSuffix(folder_name)) IN
         IF ~date_obj.ok \/ ToOrdinal(date_obj) - 1 < 1
         THEN [raised |-> TRUE, str |-> <<>>]
         ELSE [raised |-> FALSE, str |-> Strftime(MinusOneDay(date_obj))]

\* sorted(folder_path.glob("*.json.gz")): the present names in ascending order
RECURSIVE SortedNames(_)
SortedNames(S) ==
  IF S = {} THEN <<>>
  ELSE LET lo == CHOOSE x \in S : \A y \in S : x <= y
       IN  <<lo>> \o SortedNames(S \ {lo})

\* record["date"] = date_str
TagDate(rec, date_str) ==
  [f \in DOMAIN rec \cup {"date"} |-> IF f = "date" THEN date_str ELSE rec[f]]

\* the records the loop over one member writes: blank lines are skipped, and
\* the first line json.loads or the date assignment rejects ends the member
\* (the try encloses the whole member)
RECURSIVE ReadMember(_, _)
ReadMember(lines, date_str) ==
  IF lines = <<>> THEN <<>>
  ELSE LET line == Head(lines) IN
         IF line.kind = "blank" THEN ReadMember(Tail(lines), date_str)
         ELSE IF line.kind # "object" THEN <<>>
         ELSE <<TagDate(line.rec, date_str)>>
              \o ReadMember(Tail(lines), date_str)

\* what the loop over gz_files writes to the output
RECURSIVE ReadMembers(_, _, _)
ReadMembers(names, members, date_str) ==
  IF names = <<>> THEN <<>>
  ELSE ReadMember(members[Head(names)], date_str)
       \o ReadMembers(Tail(names), members, date_str)

NoMembers == <<>>

OpenW_Append(old, written) == old \o written
\* open(output_file, "w") and the writes that follow: the file is truncated,
\* whatever it held
OpenW(old, written) == written

\* process_folder(folder_path, delete_originals) on a folder named `name`
\* holding `members`, the output being outF (if outE): what it returns and
\* leaves behind
ProcessFolderResult(name, members, outE, outF, delete_originals) ==
  LET gz_files == SortedNames(DOMAIN members)
      date      == ExtractDateFromFolder(name)
      asFound   == [gz |-> members, outExists |-> outE, outFile |-> outF,
                    reads |-> 0, wrote |-> FALSE]
  IN  IF date.raised
      THEN [result |-> "raised"] @@ asFound
      ELSE IF gz_files = <<>>
      THEN [result |-> IF outE THEN "output_file" ELSE "None"] @@ asFound
      ELSE [result |-> "output_file",
            gz |-> IF delete_originals THEN NoMembers ELSE members,
            outExists |-> TRUE,
            outFile |-> OpenW(outF, ReadMembers(gz_files, members, date.str)),
            reads |-> Len(gz_files),
            wrote |-> TRUE]

\* a process_folder call on the period folder
ProcessFolder(delete_originals) ==
  /\ Len(pfHist) < MaxCalls
  /\ pfHist' = Append(pfHist, delete_originals)
  /\ outBefore' = [exists |-> outExists, file |-> outFile]
  /\ gzBefore' = gz
  /\ \E r \in {ProcessFolderResult(folderName, gz, outExists, outFile,
                                     delete_originals)} :
       /\ pfResult' = r.result
       /\ pfReads' = r.reads
       /\ pfWrote' = r.wrote
       /\ gz' = r.gz
       /\ outExists' = r.outExists
       /\ outFile' = r.outFile
  /\ UNCHANGED folderName

\* where a process_folder call can be stopped once it is past its early
\* returns: inside the with block that writes the output, or in the loop that
\* unlinks the members
InterruptPoints == {"writing", "deleting"}

\* a process_folder(folder, delete_originals=True) call that is stopped:
\* "writing" leaves the truncated output with the first k records written and
\* every member in place; "deleting" leaves the complete output and the
\* members but for the first k in sorted order
ProcessFolderInterrupted(point, k) ==
  /\ Len(pfHist) < MaxCalls
  /\ gz # NoMembers
  /\ ~ExtractDateFromFolder(folderName).raised
  /\ LET gz_files == SortedNames(DOMAIN gz)
         written  == ReadMembers(gz_files, gz,
                                 ExtractDateFromFolder(folderName).str)
     IN  /\ pfReads' = Len(gz_files)
         /\ IF point = "writing"
            THEN /\ k <= Len(written)
                 /\ outFile' = OpenW(outFile, SubSeq(written, 1, k))
                 /\ gz' = gz
            ELSE /\ k <= Len(gz_files)
                 /\ outFile' = OpenW(outFile, written)
                 /\ gz' = [n \in {gz_files[i] : i \in (k + 1)..Len(gz_files)} |->
                             gz[n]]
  /\ pfHist' = Append(pfHist, TRUE)
  /\ outBefore' = [exists |-> outExists, file |-> outFile]
  /\ gzBefore' = gz
  /\ pfResult' = "interrupted"
  /\ pfWrote' = TRUE
  /\ outExists' = TRUE
  /\ UNCHANGED folderName

\* ------------------------------------------- DataPuller (data_puller.py)
NoRequests == [token |-> 0, manifest |-> 0, download |-> 0]

\* manifest.get(key, [])
ManifestGet(m, key) == IF key \in DOMAIN m THEN m[key] ELSE <<>>

\* Path(entry["filename"]).name
Basename(filename) == filename.base

DestExists_Never(fs, name) == FALSE
\* dest.exists()
DestExists(fs, name) == name \in DOMAIN fs

\* dest now holds `content`
WriteFile(fs, name, content) ==
  [n \in DOMAIN fs \cup {name} |-> IF n = name THEN content ELSE fs[n]]

\* _download_file: one GET; "ok" streams the whole body to dest, "http_error"
\* raises at raise_for_status before dest is opened, "broken" raises while
\* streaming and leaves a truncated dest
DownloadOutcomes == {"ok", "http_error", "broken"}
DownloadFile(fs, url, name, outcome) ==
  CASE outcome = "ok" -> WriteFile(fs, name, url)
    [] outcome = "http_error" -> fs
    [] outcome = "broken" -> WriteFile(fs, name, "truncated")

\* _download_entries: [files, downloads, raised] after the loop over entries;
\* outcomes[i] is how the transfer of entry i goes if it is attempted
RECURSIVE DownloadEntries(_, _, _, _)
DownloadEntries(entries, outcomes, fs, n) ==
  IF entries = <<>> THEN [files |-> fs, downloads |-> n, raised |-> FALSE]
  ELSE LET entry == Head(entries)
           filename == Basename(entry.filename)
       IN  IF DestExists(fs, filename)
           THEN DownloadEntries(Tail(entries), Tail(outcomes), fs, n)
           ELSE LET after == DownloadFile(fs, entry.downloadUrl, filename,
                                          Head(outcomes))
                IN  IF Head(outcomes) = "ok"
                    THEN DownloadEntries(Tail(entries), Tail(outcomes), after,
                                         n + 1)
                    ELSE [files |-> after, downloads |-> n + 1, raised |-> TRUE]

\* get_auth_headers as pull sees it: a token served without a request
\* ("cached"), a token from one client-credentials exchange ("exchanged"), or
\* no token after one failed exchange ("failed")
AuthOutcomes == {"cached", "exchanged", "failed"}
TokenRequests(auth) == IF auth = "cached" THEN 0 ELSE 1

\* every entry of the manifest has a file of its basename in data_dir
AllExist(fs, m) ==
  \A key \in DOMAIN m : \A i \in 1..Len(m[key]) :
    Basename(m[key][i].filename) \in DOMAIN fs

HeadersMissing_Never(auth) == FALSE
\* headers = self.auth_client.get_auth_headers(); if headers is None: raise
HeadersMissing(auth) == auth = "failed"

\* pull() followed by the transfer of `entries` of the manifest
\* (download_deltas, download_bulk, and download_latest_delta for the last
\* delta): auth = outcome of get_auth_headers, manifestOk = the manifest
\* request succeeds
PullAndDownload(entries, auth, manifestOk, outcomes) ==
  /\ dlAllExisted' = AllExist(files, manifest)
  /\ filesBefore' = files
  /\ IF HeadersMissing(auth)
     THEN /\ reqs' = [NoRequests EXCEPT !.token = 1]
          /\ dlResult' = "raised"
          /\ dlValue' = <<>>
          /\ files' = files
     ELSE IF ~manifestOk
     THEN /\ reqs' = [token |-> TokenRequests(auth), manifest |-> 1,
                     download |-> 0]
          /\ dlResult' = "raised"
          /\ dlValue' = <<>>
          /\ files' = files
     ELSE \E r \in {DownloadEntries(entries, outcomes, files, 0)} :
            /\ reqs' = [token |-> TokenRequests(auth), manifest |-> 1,
                        download |-> r.downloads]
            /\ dlResult' = IF r.raised THEN "raised" ELSE "returned"
            /\ dlValue' = IF r.raised THEN <<>>
                          ELSE [i \in 1..Len(entries) |->
                                  Basename(entries[i].filename)]
            /\ files' = r.files
  /\ dlChanged' = (files' # files)
  /\ UNCHANGED manifest

DownloadDeltas(auth, manifestOk, outcomes) ==
  /\ PullAndDownload(ManifestGet(manifest, "delta"), auth, manifestOk, outcomes)
  /\ dlOp' = "download_deltas"

DownloadBulk(auth, manifestOk, outcomes) ==
  /\ PullAndDownload(ManifestGet(manifest, "bulk"), auth, manifestOk, outcomes)
  /\ dlOp' = "download_bulk"

LatestOf_First(deltas) ==
  IF deltas = <<>> THEN <<>> ELSE <<deltas[1]>>
\* deltas[-1], when there is one
LatestOf(deltas) ==
  IF deltas = <<>> THEN <<>> ELSE <<deltas[Len(deltas)]>>

DownloadLatestDelta(auth, manifestOk, outcomes) ==
  /\ PullAndDownload(LatestOf(ManifestGet(manifest, "delta")), auth, manifestOk,
                     outcomes)
  /\ dlOp' = "download_latest_delta"

\* data_dir before any transfer: any of the names taken by some other file
InitialFiles == UNION {[S -> {"other"}] : S \in SUBSET BaseNames}

PInitOn(manifests, fileStates) ==
  /\ manifest \in manifests
  /\ files \in fileStates
  /\ reqs = NoRequests
  /\ dlResult = "none"
  /\ dlAllExisted = FALSE
  /\ dlChanged = FALSE
  /\ dlOp = "none"
  /\ dlValue = <<>>
  /\ filesBefore = <<>>

PIdle == PInitOn({<<>>}, {<<>>})

OutcomeSeqs == [1..MaxEntries -> DownloadOutcomes]

\* how the transfers of a call can go: when pull raises no transfer is
\* attempted, and how one would have gone makes no difference
OutcomesFor(auth, manifestOk) ==
  IF HeadersMissing(auth) \/ ~manifestOk THEN {[i \in 1..MaxEntries |-> "ok"]}
  ELSE OutcomeSeqs

\* ------------------------------------------- MOTOAuth2Client (auth.py)
\* token_cache.serialize() as written to the file, and deserialize(f.read()):
\* json.dumps / json.loads of the cache dict; text that is no JSON raises
Serialize(c) == ObjectFile(c)
CanDeserialize(file) == file.kind = "object"
Deserialize(file) == file.data

\* _init_cache: a fresh cache, filled from the cache file when it exists and
\* can be read (a failure to load is logged and leaves the cache empty)
InitCache(file) ==
  IF file.kind # "absent" /\ CanDeserialize(file) THEN Deserialize(file)
  ELSE NoCache

\* self.app.get_accounts()
Accounts(c) == IF "Account" \in DOMAIN c THEN c["Account"] ELSE {}

AccessTokens(c) == IF "AccessToken" \in DOMAIN c THEN c["AccessToken"] ELSE <<>>

\* the cache after a token response was added under `key`
AddToken(c, key, secret) ==
  [t \in DOMAIN c \cup {"AccessToken"} |->
     IF t = "AccessToken"
     THEN [k \in DOMAIN AccessTokens(c) \cup {key} |->
             IF k = key THEN TokenEntry(secret) ELSE AccessTokens(c)[k]]
     ELSE c[t]]

\* self.app.remove_account(account) for every account: the accounts and the
\* tokens held for them go; the client's own token is bound to no account
RemoveAccounts(c) ==
  [t \in DOMAIN c |->
     IF t = "Account" THEN {}
     ELSE [k \in DOMAIN c[t] \ {UserKey} |-> c[t][k]]]

\* acquire_token_silent(scopes, account): the token cached for the account, a
\* token refreshed for it, None, an error result, or an exception
SilentOutcomes == {"cached", "refreshed", "none", "error", "raises"}
\* acquire_token_for_client(scopes): a token, an error result, or an exception
ExchangeOutcomes == {"ok", "error", "raises"}
\* open(self.cache_file, 'w+') and f.write(...): both work, open raises, or
\* write raises after the file was truncated
WriteOutcomes == {"ok", "open_raises", "write_raises"}

\* _save_cache with the cache c: [file, changed] afterwards
SaveCache(c, changed, file, write) ==
  IF ~changed THEN [file |-> file, changed |-> changed]
  ELSE CASE write = "ok" -> [file |-> Serialize(c), changed |-> FALSE]
         [] write = "open_raises" -> [file |-> file, changed |-> changed]
         [] write = "write_raises" -> [file |-> GarbageFile, changed |-> FALSE]

SilentAttempted_Always(force_refresh, c) == Accounts(c) # {}
\* if not force_refresh: accounts = get_accounts(); if accounts: ...
SilentAttempted(force_refresh, c) == ~force_refresh /\ Accounts(c) # {}

\* get_access_token(force_refresh)
GetAccessToken(force_refresh, silent, exchange, secret, write) ==
  /\ authCalls < MaxAuthCalls
  /\ authCalls' = authCalls + 1
  /\ authOp' = "get_access_token"
  /\ gaForce' = force_refresh
  /\ UNCHANGED <<now, expResult>>
  /\ LET attempts == SilentAttempted(force_refresh, cache) IN
     /\ gaSilent' = IF attempts THEN 1 ELSE 0
     /\ silent = "cached" => UserKey \in DOMAIN AccessTokens(cache)
     /\ IF attempts /\ silent \in {"cached", "refreshed"}
        THEN /\ gaExchange' = 0
             /\ gaSource' = "silent"
             /\ IF silent = "cached"
                THEN /\ gaReturn' = AccessTokens(cache)[UserKey].secret
                     /\ UNCHANGED <<cache, hasStateChanged>>
                ELSE /\ gaReturn' = secret
                     /\ cache' = AddToken(cache, UserKey, secret)
                     /\ hasStateChanged' = TRUE
             /\ UNCHANGED cacheFile
        ELSE /\ gaExchange' = 1
             /\ IF exchange = "ok"
                THEN /\ cache' = AddToken(cache, AppKey, secret)
                     /\ \E sv \in {SaveCache(cache', TRUE, cacheFile, write)} :
                          /\ cacheFile' = sv.file
                          /\ hasStateChanged' = sv.changed
                     /\ gaSource' = "exchange"
                     /\ gaReturn' = secret
                ELSE /\ gaSource' = "none"
                     /\ gaReturn' = "None"
                     /\ UNCHANGED <<cache, hasStateChanged, cacheFile>>

\* clear_cache: unlink the cache file, then remove every account; an
\* exception at either step is logged and ends the call
UnlinkOutcomes == {"ok", "raises"}
ClearCache(unlink, remove) ==
  /\ authCalls < MaxAuthCalls
  /\ authCalls' = authCalls + 1
  /\ authOp' = "clear_cache"
  /\ IF cacheFile.kind # "absent" /\ unlink = "raises"
     THEN UNCHANGED <<cacheFile, cache, hasStateChanged>>
     ELSE /\ cacheFile' = AbsentFile
          /\ IF Accounts(cache) = {} \/ remove = "raises"
             THEN UNCHANGED <<cache, hasStateChanged>>
             ELSE /\ cache' = RemoveAccounts(cache)
                  /\ hasStateChanged' = TRUE
  /\ UNCHANGED <<gaForce, gaSilent, gaExchange, gaSource, gaReturn, now,
                 expResult>>

\* `if expires_on:` — a missing key (None) and the number 0 are false
Truthy(e) ==
  CASE e.type = "missing" -> FALSE
    [] e.type = "number" -> e.val # 0
    [] OTHER -> TRUE

\* the 60 second buffer
IsTokenExpiredBuffer == 60

\* the loop over access_tokens.items(): the first entry with a true
\* expires_on decides; int() of a string that is no number raises ValueError,
\* which is caught and reported as expired
RECURSIVE ExpiryOfEntries(_, _)
ExpiryOfEntries(entries, current_time) ==
  IF entries = <<>> THEN "True"
  ELSE LET expires_on == Head(entries).expires_on IN
         IF ~Truthy(expires_on) THEN ExpiryOfEntries(Tail(entries), current_time)
         ELSE IF expires_on.type = "text" THEN "True"
         ELSE IF current_time >= expires_on.val - IsTokenExpiredBuffer
              THEN "True" ELSE "False"

\* _is_token_expired on the cache file at time current_time; "raised" = an
\* exception the except clause does not name leaves the method
IsTokenExpired(file, current_time) ==
  CASE file.kind = "absent" -> "True"
    [] file.kind = "unopenable" -> "raised"     \* OSError from open()
    [] file.kind = "garbage" -> "True"          \* json.JSONDecodeError
    [] file.kind = "nonobject" -> "raised"      \* AttributeError from .get
    [] file.kind = "object" ->
         IF "AccessToken" \notin DOMAIN file.data THEN "True"
         ELSE ExpiryOfEntries(file.data["AccessToken"], current_time)

\* a call of _is_token_expired
CheckExpired ==
  /\ expResult = "none"
  /\ expResult' = IsTokenExpired(cacheFile, now)
  /\ UNCHANGED <<cache, hasStateChanged, cacheFile, authOp, gaForce, gaSilent,
                 gaExchange, gaSource, gaReturn, authCalls, now>>

\* a client constructed over the cache file found on disk
AInitOn(fileStates) ==
  /\ cacheFile \in fileStates
  /\ cache = InitCache(cacheFile)
  /\ hasStateChanged = FALSE
  /\ authOp = "none"
  /\ gaForce = FALSE
  /\ gaSilent = 0
  /\ gaExchange = 0
  /\ gaSource = "none"
  /\ gaReturn = "None"
  /\ authCalls = 0
  /\ now = 0
  /\ expResult = "none"

AIdle == AInitOn({AbsentFile})

\* ---------------------------------- perform_weekly_delta_merge (main.py)
Periods ==
  {"delta-light-vehicle_10-01-2026", "delta-light-vehicle_11-01-2026",
   "bulk-light-vehicle_02-02-2026"}

\* zf.stem: the archive's name without ".zip"
ZipStem(base) ==
  CASE base = "delta-light-vehicle_10-01-2026.zip" -> "delta-light-vehicle_10-01-2026"
    [] base = "delta-light-vehicle_11-01-2026.zip" -> "delta-light-vehicle_11-01-2026"
    [] base = "bulk-light-vehicle_02-02-2026.zip" -> "bulk-light-vehicle_02-02-2026"

\* the characters of a period name
NameChars(name) ==
  CASE name = "delta-light-vehicle_10-01-2026" ->
         <<"d", "e", "l", "t", "a", "-", "l", "i", "g", "h", "t",
           "-", "v", "e", "h", "i", "c", "l", "e", "_", "1", "0",
           "-", "0", "1", "-", "2", "0", "2", "6">>
    [] name = "delta-light-vehicle_11-01-2026" ->
         <<"d", "e", "l", "t", "a", "-", "l", "i", "g", "h", "t",
           "-", "v", "e", "h", "i", "c", "l", "e", "_", "1", "1",
           "-", "0", "1", "-", "2", "0", "2", "6">>
    [] name = "bulk-light-vehicle_02-02-2026" ->
         <<"b", "u", "l", "k", "-", "l", "i", "g", "h", "t", "-",
           "v", "e", "h", "i", "c", "l", "e", "_", "0", "2", "-",
           "0", "2", "-", "2", "0", "2", "6">>

\* position of a name of data_dir in sorted() order
SortRank(name) ==
  CASE name = "bulk-light-vehicle_02-02-2026" -> 1
    [] name = "delta-light-vehicle_10-01-2026" -> 2
    [] name = "delta-light-vehicle_11-01-2026" -> 3

RECURSIVE SortedByRank(_)
SortedByRank(S) ==
  IF S = {} THEN <<>>
  ELSE LET lo == CHOOSE x \in S : \A y \in S : SortRank(x) <= SortRank(y)
       IN  <<lo>> \o SortedByRank(S \ {lo})

StartsWith(cs, prefix) ==
  Len(cs) >= Len(prefix) /\ SubSeq(cs, 1, Len(prefix)) = prefix
DeltaPrefix == SubSeq(NameChars("delta-light-vehicle_10-01-2026"), 1, 19)
BulkPrefix == SubSeq(NameChars("bulk-light-vehicle_02-02-2026"), 1, 18)

\* what z.extractall(dest) puts into dest, by the archive's content; a content
\* that is no complete archive makes zipfile.ZipFile raise
IsArchive(content) == content \in {"U1", "U2", "U3", "U4"}
ArchiveMembers(content) ==
  CASE content = "U1" -> [n \in {1} |-> <<[kind |-> "object", rec |-> RecA]>>]
    [] content = "U2" ->
         [n \in MemberNames |->
            IF n = 1 THEN <<[kind |-> "object", rec |-> RecB]>>
            ELSE <<[kind |-> "invalid"], [kind |-> "object", rec |-> RecA]>>]
    [] content = "U3" -> NoMembers
    [] content = "U4" -> [n \in {1} |-> <<[kind |-> "object", rec |-> RecA]>>]

Without(f, k) == [n \in DOMAIN f \ {k} |-> f[n]]
With(f, k, v) == [n \in DOMAIN f \cup {k} |-> IF n = k THEN v ELSE f[n]]

\* def merge_delta(self, file_path, limit=None)
MergeDeltaParams == {"file_path", "limit"}
\* uploader.merge_delta(fp, no_merge=True, append_staging=...)
WeeklyCallKeywords == {"no_merge", "append_staging"}
\* a call binds when every keyword it passes names a parameter
CallBinds(params, keywords) == keywords \subseteq params

ZipOf(stem) == CHOOSE b \in BaseNames : ZipStem(b) = stem

\* step 1: puller.download_deltas(); then processor.run() begins:
\* zip_files = sorted(self.data_dir.glob("*.zip"))
RunPull(auth, manifestOk, outcomes) ==
  /\ rpc \in {"idle", "done", "failed"}
  /\ DownloadDeltas(auth, manifestOk, outcomes)
  /\ rpc' = IF dlResult' = "raised" THEN "failed" ELSE "unzip"
  /\ rerr' = IF dlResult' = "raised" THEN "pull" ELSE ""
  /\ todo' = IF dlResult' = "raised" THEN <<>>
             ELSE SortedByRank({ZipStem(b) : b \in DOMAIN files' \cap BaseNames})
  /\ runPaths' = <<>>
  /\ ri' = 0
  /\ loads' = <<>>
  /\ runMerges' = 0
  /\ UNCHANGED <<dirs, outs>>

\* get_auth_headers() as pull calls it: get_access_token() without
\* force_refresh; None when it returned no token
AuthOutcomeOf(source) ==
  CASE source = "silent" -> "cached"
    [] source = "exchange" -> "exchanged"
    [] source = "none" -> "failed"

\* step 1 with the client's own get_access_token deciding the headers
RunPullWithAuth(silent, exchange, secret, write, manifestOk, outcomes) ==
  /\ rpc \in {"idle", "done", "failed"}
  /\ GetAccessToken(FALSE, silent, exchange, secret, write)
  /\ RunPull(AuthOutcomeOf(gaSource'), manifestOk, outcomes)

\* z.extractall(dest): every member is written, or the call raises part-way
\* (the storage fails, the process is stopped) with the first members written
ExtractOutcomes == {"ok", "raises"}
PartialExtracts(content) ==
  LET all == ArchiveMembers(content) IN
    {[n \in {x \in DOMAIN all : x <= k} |-> all[n]] :
       k \in {j \in 0..Cardinality(DOMAIN all) : j = 0 \/ j < Cardinality(DOMAIN all)}}

\* step 2, unzip_all, one turn of its loop: skip an archive whose folder
\* exists; otherwise mkdir, extractall and unlink. zipfile raises on a file
\* that is no complete archive, after the folder was made
RunUnzip(extract) ==
  /\ rpc = "unzip"
  /\ todo # <<>>
  /\ LET dest == Head(todo)
         zf   == ZipOf(dest)
     IN  IF dest \in DOMAIN dirs
         THEN /\ todo' = Tail(todo)
              /\ UNCHANGED <<files, dirs, rpc, rerr>>
         ELSE IF ~IsArchive(files[zf])
         THEN /\ dirs' = With(dirs, dest, NoMembers)
              /\ rpc' = "failed"
              /\ rerr' = "unzip"
              /\ UNCHANGED <<files, todo>>
         ELSE IF extract = "raises"
         THEN /\ \E part \in PartialExtracts(files[zf]) :
                   dirs' = With(dirs, dest, part)
              /\ rpc' = "failed"
              /\ rerr' = "unzip"
              /\ UNCHANGED <<files, todo>>
         ELSE /\ dirs' = With(dirs, dest, ArchiveMembers(files[zf]))
              /\ files' = Without(files, zf)
              /\ todo' = Tail(todo)
              /\ UNCHANGED <<rpc, rerr>>
  /\ UNCHANGED <<manifest, reqs, dlResult, dlAllExisted, dlChanged, dlOp,
                 dlValue, filesBefore, outs, runPaths, ri, loads, runMerges>>

\* step 2, run(): unzip_all is over; the period folders of data_dir, sorted
RunListFolders ==
  /\ rpc = "unzip"
  /\ todo = <<>>
  /\ rpc' = "process"
  /\ todo' = SortedByRank({f \in DOMAIN dirs :
                             \/ StartsWith(NameChars(f), DeltaPrefix)
                             \/ StartsWith(NameChars(f), BulkPrefix)})
  /\ UNCHANGED <<pvars, rerr, dirs, outs, runPaths, ri, loads, runMerges>>

\* step 2, run(), one turn of its loop: process_folder(folder,
\* delete_originals=True), collect its result, rmtree(folder)
RunProcess ==
  /\ rpc = "process"
  /\ todo # <<>>
  /\ LET folder == Head(todo) IN
     \E r \in {ProcessFolderResult(NameChars(folder), dirs[folder],
                                   folder \in DOMAIN outs,
                                   IF folder \in DOMAIN outs THEN outs[folder]
                                   ELSE <<>>,
                                   TRUE)} :
       IF r.result = "raised"
       THEN /\ rpc' = "failed"
            /\ rerr' = "process"
            /\ UNCHANGED <<dirs, outs, runPaths, todo>>
       ELSE /\ outs' = IF r.outExists THEN With(outs, folder, r.outFile)
                       ELSE outs
            /\ runPaths' = IF r.result = "output_file"
                           THEN Append(runPaths, folder) ELSE runPaths
            /\ dirs' = Without(dirs, folder)
            /\ todo' = Tail(todo)
            /\ UNCHANGED <<rpc, rerr>>
  /\ UNCHANGED <<pvars, ri, loads, runMerges>>

\* step 2 is over: run() returns output_files and the upload loop begins
RunProcessed ==
  /\ rpc = "process"
  /\ todo = <<>>
  /\ rpc' = "upload"
  /\ ri' = 1
  /\ UNCHANGED <<pvars, rerr, dirs, outs, runPaths, todo, loads, runMerges>>

RunUpload_RemoveFirst ==
  /\ rpc = "upload"
  /\ ri <= Len(runPaths)
  /\ outs' = Without(outs, runPaths[ri])
  /\ IF CallBinds(MergeDeltaParams, WeeklyCallKeywords)
     THEN /\ loads' = Append(loads, IF ri = 1 THEN "WRITE_TRUNCATE"
                                    ELSE "WRITE_APPEND")
          /\ ri' = ri + 1
          /\ UNCHANGED <<rpc, rerr>>
     ELSE /\ rpc' = "failed"
          /\ rerr' = "TypeError"
          /\ UNCHANGED <<loads, ri>>
  /\ UNCHANGED <<pvars, dirs, runPaths, todo, runMerges>>

\* step 3, one turn of the loop: uploader.merge_delta(fp, no_merge=True,
\* append_staging=(i > 0)) and os.remove(fp); the call passes keywords that
\* merge_delta does not accept, so it raises TypeError before its body runs
RunUpload ==
  /\ rpc = "upload"
  /\ ri <= Len(runPaths)
  /\ IF CallBinds(MergeDeltaParams, WeeklyCallKeywords)
     THEN /\ loads' = Append(loads, IF ri = 1 THEN "WRITE_TRUNCATE"
                                    ELSE "WRITE_APPEND")
          /\ outs' = Without(outs, runPaths[ri])
          /\ ri' = ri + 1
          /\ UNCHANGED <<rpc, rerr>>
     ELSE /\ rpc' = "failed"
          /\ rerr' = "TypeError"
          /\ UNCHANGED <<loads, outs, ri>>
  /\ UNCHANGED <<pvars, dirs, runPaths, todo, runMerges>>

\* the loop is over: the run returns
RunReturn ==
  /\ rpc = "upload"
  /\ ri > Len(runPaths)
  /\ rpc' = "done"
  /\ UNCHANGED <<pvars, rerr, dirs, outs, runPaths, todo, ri, loads, runMerges>>

\* ------------------------------------- GET /weekly-delta-merge (main.py)
\* the steps of perform_weekly_delta_merge a background task is inside of
RunningSteps == {"pull", "process", "upload"}

\* weekly_delta_merge: background_tasks.add_task(perform_weekly_delta_merge)
\* and the response {"status": "started"}; nothing is tested or locked
WeeklyDeltaMerge(r) ==
  /\ tpc[r] = "none"
  /\ tpc' = [tpc EXCEPT ![r] = "queued"]

\* the server starts the task added by request r on a worker thread, once
\* the response is sent
TaskStart(r) ==
  /\ tpc[r] = "queued"
  /\ tpc' = [tpc EXCEPT ![r] = "pull"]

\* the task of request r moves on to its next step, or returns after step 3
TaskStep(r) ==
  /\ tpc[r] \in RunningSteps
  /\ tpc' = [tpc EXCEPT ![r] = CASE tpc[r] = "pull" -> "process"
                                  [] tpc[r] = "process" -> "upload"
                                  [] tpc[r] = "upload" -> "ended"]

\* an exception in the current step ends the task of request r
TaskRaise(r) ==
  /\ tpc[r] \in RunningSteps
  /\ tpc' = [tpc EXCEPT ![r] = "ended"]

\* no request has arrived
CIdle == tpc = [r \in Requests |-> "none"]

\* no file is being retried and no period folder is being followed
HIdle ==
  /\ retryFile = <<>>
  /\ retryCalls = 0
  /\ onceDone = FALSE
  /\ mainOnce = EmptyBag
  /\ gzOrig = <<>>

RIdle ==
  /\ rpc = "idle"
  /\ rerr = ""
  /\ dirs = <<>>
  /\ outs = <<>>
  /\ runPaths = <<>>
  /\ todo = <<>>
  /\ ri = 0
  /\ loads = <<>>
  /\ runMerges = 0

WInit ==
  /\ main = EmptyBag
  /\ mainExists = FALSE
  /\ staging = EmptyBag
  /\ stagingExists = FALSE
  /\ upc = "idle"
  /\ uresult = "none"
  /\ mainBefore = EmptyBag
  /\ batch = EmptyBag
  /\ leftKeys = {}

\* a period folder as the download and extraction steps leave it: any of the
\* members present, no output yet
GzStates == UNION {[S -> MemberContents] : S \in SUBSET MemberNames}

NInitOn(folders, members) ==
  /\ folderName \in folders
  /\ gz \in members
  /\ outExists = FALSE
  /\ outFile = <<>>
  /\ pfResult = "none"
  /\ pfReads = 0
  /\ pfWrote = FALSE
  /\ outBefore = [exists |-> FALSE, file |-> <<>>]
  /\ gzBefore = NoMembers
  /\ pfHist = <<>>

\* no period folder on disk
NIdle == NInitOn({<<>>}, {NoMembers})

vars == <<wvars, nvars, pvars, rvars, avars, cvars, hvars>>

\* ---- the uploader on its own: create_table and merge_delta calls
Init == WInit /\ NIdle /\ PIdle /\ RIdle /\ AIdle /\ CIdle /\ HIdle

Next ==
  \/ \E file \in DeltaFiles, limit \in MergeLimits :
       MergeDeltaStage(file, limit) /\ UNCHANGED <<nvars, pvars, rvars, avars, cvars, hvars>>
  \/ MergeDeltaStageFails /\ UNCHANGED <<nvars, pvars, rvars, avars, cvars, hvars>>
  \/ MergeDeltaMerge /\ UNCHANGED <<nvars, pvars, rvars, avars, cvars, hvars>>
  \/ MergeDeltaDrop /\ UNCHANGED <<nvars, pvars, rvars, avars, cvars, hvars>>
  \/ MergeDeltaReturn /\ UNCHANGED <<nvars, pvars, rvars, avars, cvars, hvars>>
  \/ \E file \in BulkFiles, limit \in Limits :
       CreateTable(file, limit) /\ UNCHANGED <<nvars, pvars, rvars, avars, cvars, hvars>>

Spec == Init /\ [][Next]_vars

\* ---- the normaliser on one period folder: process_folder calls
NormInit == WInit /\ NInitOn(NormFolders, GzStates) /\ PIdle /\ RIdle /\ AIdle /\ CIdle /\ HIdle

NormNext ==
  \E delete_originals \in BOOLEAN :
    ProcessFolder(delete_originals) /\ UNCHANGED <<wvars, pvars, rvars, avars, cvars, hvars>>

SpecNorm == NormInit /\ [][NormNext]_vars

\* ---- the date rule: process_folder over the folder names of DateFolders
DateMembers ==
  {NoMembers, [n \in {1} |-> <<[kind |-> "object", rec |-> RecA]>>],
   [n \in MemberNames |-> <<[kind |-> "object", rec |-> RecB],
                            [kind |-> "object", rec |-> RecA]>>]}

DateInit ==
  WInit /\ NInitOn(DateFolders, DateMembers) /\ PIdle /\ RIdle /\ AIdle /\ CIdle /\ HIdle

SpecDate == DateInit /\ [][NormNext]_vars

\* ---- the puller on one data directory: download_* calls
PullInit == WInit /\ NIdle /\ PInitOn(Manifests, InitialFiles) /\ RIdle /\ AIdle /\ CIdle /\ HIdle

PullNext ==
  \/ \E auth \in AuthOutcomes, manifestOk \in BOOLEAN :
       \E outcomes \in OutcomesFor(auth, manifestOk) :
         DownloadDeltas(auth, manifestOk, outcomes) /\ UNCHANGED <<wvars, nvars, rvars, avars, cvars, hvars>>
  \/ \E auth \in AuthOutcomes, manifestOk \in BOOLEAN :
       \E outcomes \in OutcomesFor(auth, manifestOk) :
         DownloadBulk(auth, manifestOk, outcomes) /\ UNCHANGED <<wvars, nvars, rvars, avars, cvars, hvars>>
  \/ \E auth \in AuthOutcomes, manifestOk \in BOOLEAN :
       \E outcomes \in OutcomesFor(auth, manifestOk) :
         DownloadLatestDelta(auth, manifestOk, outcomes)
         /\ UNCHANGED <<wvars, nvars, rvars, avars, cvars, hvars>>

SpecPull == PullInit /\ [][PullNext]_vars

\* ---- one period normalised and merged: process_folder, then merge_delta
\* on the output it produced, against a main table made by create_table
PipeFolders == {<<"d", "e", "l", "t", "a", "-", "l", "i", "g", "h", "t", "-",
                  "v", "e", "h", "i", "c", "l", "e", "_", "1", "0", "-", "0",
                  "1", "-", "2", "0", "2", "6">>}

PipeInit == WInit /\ NInitOn(PipeFolders, GzStates) /\ PIdle /\ RIdle /\ AIdle /\ CIdle /\ HIdle

PipeNext ==
  \/ \E delete_originals \in BOOLEAN :
       ProcessFolder(delete_originals) /\ upc = "idle"
       /\ UNCHANGED <<wvars, pvars, rvars, avars, cvars, hvars>>
  \/ \E file \in BulkFiles, limit \in Limits :
       CreateTable(file, limit) /\ UNCHANGED <<nvars, pvars, rvars, avars, cvars, hvars>>
  \/ \E limit \in MergeLimits :
       outExists /\ MergeDeltaStage(outFile, limit) /\ UNCHANGED <<nvars, pvars, rvars, avars, cvars, hvars>>
  \/ outExists /\ MergeDeltaStageFails /\ UNCHANGED <<nvars, pvars, rvars, avars, cvars, hvars>>
  \/ MergeDeltaMerge /\ UNCHANGED <<nvars, pvars, rvars, avars, cvars, hvars>>
  \/ MergeDeltaDrop /\ UNCHANGED <<nvars, pvars, rvars, avars, cvars, hvars>>
  \/ MergeDeltaReturn /\ UNCHANGED <<nvars, pvars, rvars, avars, cvars, hvars>>

SpecPipe == PipeInit /\ [][PipeNext]_vars

\* ---- weekly runs, one after another, on one data directory
RunInit == WInit /\ NIdle /\ PInitOn(Manifests, InitialFiles) /\ RIdle /\ AIdle /\ CIdle /\ HIdle

RunNext ==
  \/ \E auth \in AuthOutcomes, manifestOk \in BOOLEAN :
       \E outcomes \in OutcomesFor(auth, manifestOk) :
         RunPull(auth, manifestOk, outcomes) /\ UNCHANGED <<wvars, nvars, avars, cvars, hvars>>
  \/ \E extract \in ExtractOutcomes :
       RunUnzip(extract) /\ UNCHANGED <<wvars, nvars, avars, cvars, hvars>>
  \/ RunListFolders /\ UNCHANGED <<wvars, nvars, avars, cvars, hvars>>
  \/ RunProcess /\ UNCHANGED <<wvars, nvars, avars, cvars, hvars>>
  \/ RunProcessed /\ UNCHANGED <<wvars, nvars, avars, cvars, hvars>>
  \/ RunUpload /\ UNCHANGED <<wvars, nvars, avars, cvars, hvars>>
  \/ RunReturn /\ UNCHANGED <<wvars, nvars, avars, cvars, hvars>>

SpecRun == RunInit /\ [][RunNext]_vars

\* ---- one MOTOAuth2Client: get_access_token and clear_cache calls
AuthInit == WInit /\ NIdle /\ PIdle /\ RIdle /\ AInitOn(AuthFiles) /\ CIdle /\ HIdle

AuthNext ==
  \/ \E force_refresh \in BOOLEAN, silent \in SilentOutcomes,
        exchange \in ExchangeOutcomes, secret \in Secrets,
        write \in WriteOutcomes :
       GetAccessToken(force_refresh, silent, exchange, secret, write)
       /\ UNCHANGED <<wvars, nvars, pvars, rvars, cvars, hvars>>
  \/ \E unlink \in UnlinkOutcomes, remove \in UnlinkOutcomes :
       ClearCache(unlink, remove) /\ UNCHANGED <<wvars, nvars, pvars, rvars, cvars, hvars>>

SpecAuth == AuthInit /\ [][AuthNext]_vars

\* ---- the expiry check over the cache files of ExpiryFiles
ExpiryInit ==
  /\ WInit /\ NIdle /\ PIdle /\ RIdle /\ CIdle /\ HIdle
  /\ cacheFile \in ExpiryFiles
  /\ now \in Nows
  /\ cache = NoCache
  /\ hasStateChanged = FALSE
  /\ authOp = "none"
  /\ gaForce = FALSE
  /\ gaSilent = 0
  /\ gaExchange = 0
  /\ gaSource = "none"
  /\ gaReturn = "None"
  /\ authCalls = 0
  /\ expResult = "none"

ExpiryNext == CheckExpired /\ UNCHANGED <<wvars, nvars, pvars, rvars, cvars, hvars>>

SpecExpiry == ExpiryInit /\ [][ExpiryNext]_vars

\* ---- weekly runs whose first step authenticates through the client (which
\* token string the provider issues makes no difference to a run)
AuthRunManifests ==
  {[k \in {"delta"} |-> <<DeltaA>>], [k \in {"delta"} |-> <<DeltaA, DeltaB>>]}

AuthRunInit ==
  WInit /\ NIdle /\ PInitOn(AuthRunManifests, {<<>>}) /\ RIdle
  /\ AInitOn(AuthFiles) /\ CIdle /\ HIdle

AuthRunNext ==
  \/ \E silent \in SilentOutcomes, exchange \in ExchangeOutcomes,
        secret \in {"T1"}, write \in WriteOutcomes, manifestOk \in BOOLEAN,
        outcomes \in OutcomeSeqs :
       RunPullWithAuth(silent, exchange, secret, write, manifestOk, outcomes)
       /\ UNCHANGED <<wvars, nvars, cvars, hvars>>
  \/ \E extract \in ExtractOutcomes :
       RunUnzip(extract) /\ UNCHANGED <<wvars, nvars, avars, cvars, hvars>>
  \/ RunListFolders /\ UNCHANGED <<wvars, nvars, avars, cvars, hvars>>
  \/ RunProcess /\ UNCHANGED <<wvars, nvars, avars, cvars, hvars>>
  \/ RunProcessed /\ UNCHANGED <<wvars, nvars, avars, cvars, hvars>>
  \/ RunUpload /\ UNCHANGED <<wvars, nvars, avars, cvars, hvars>>
  \/ RunReturn /\ UNCHANGED <<wvars, nvars, avars, cvars, hvars>>

SpecAuthRun == AuthRunInit /\ [][AuthRunNext]_vars

\* ---- weekly runs against an existing main table, the manifest listing the
\* one delta of period 10-01-2026 and data_dir being empty
E2EManifests == {[k \in {"delta"} |-> <<DeltaA>>]}
E2EMains == {SetToBag(S) : S \in SUBSET BulkRows}

E2EInit ==
  /\ main \in E2EMains
  /\ mainExists = TRUE
  /\ staging = EmptyBag
  /\ stagingExists = FALSE
  /\ upc = "idle"
  /\ uresult = "none"
  /\ mainBefore = EmptyBag
  /\ batch = EmptyBag
  /\ leftKeys = {}
  /\ NIdle /\ PInitOn(E2EManifests, {<<>>}) /\ RIdle /\ AIdle /\ CIdle /\ HIdle

SpecE2E == E2EInit /\ [][RunNext]_vars

\* ---- requests to the trigger and the background tasks they add
TriggerInit == WInit /\ NIdle /\ PIdle /\ RIdle /\ AIdle /\ CIdle /\ HIdle

TriggerNext ==
  \/ \E r \in Requests :
       WeeklyDeltaMerge(r) /\ UNCHANGED <<wvars, nvars, pvars, rvars, avars, hvars>>
  \/ \E r \in Requests :
       TaskStart(r) /\ UNCHANGED <<wvars, nvars, pvars, rvars, avars, hvars>>
  \/ \E r \in Requests :
       TaskStep(r) /\ UNCHANGED <<wvars, nvars, pvars, rvars, avars, hvars>>
  \/ \E r \in Requests :
       TaskRaise(r) /\ UNCHANGED <<wvars, nvars, pvars, rvars, avars, hvars>>

SpecTrigger == TriggerInit /\ [][TriggerNext]_vars

\* ---- merge_delta called again and again on one normalized file, against
\* an existing main table
MaxRetries == 3    \* merge_delta calls followed on the file

RetryMains ==
  E2EMains
  \cup {SetToBag({r}) (+) SetToBag({r}) :
          r \in {[registration |-> "K1", modification |-> "NONE", make |-> "FORD"]}}

\* a merge_delta(retryFile) call begins
RetryStage ==
  /\ retryCalls < MaxRetries
  /\ MergeDeltaStage(retryFile, NoLimit) \/ MergeDeltaStageFails
  /\ retryCalls' = retryCalls + 1
  /\ UNCHANGED <<retryFile, onceDone, mainOnce, gzOrig>>

\* its MERGE statement; the first one that completes is remembered
RetryMerge ==
  /\ MergeDeltaMerge
  /\ onceDone' = (onceDone \/ upc' = "merged")
  /\ mainOnce' = IF ~onceDone /\ upc' = "merged" THEN main' ELSE mainOnce
  /\ UNCHANGED <<retryFile, retryCalls, gzOrig>>

RetryInit ==
  /\ main \in RetryMains
  /\ mainExists = TRUE
  /\ staging = EmptyBag
  /\ stagingExists = FALSE
  /\ upc = "idle"
  /\ uresult = "none"
  /\ mainBefore = EmptyBag
  /\ batch = EmptyBag
  /\ leftKeys = {}
  /\ NIdle /\ PIdle /\ RIdle /\ AIdle /\ CIdle
  /\ retryFile \in DeltaFiles
  /\ retryCalls = 0
  /\ onceDone = FALSE
  /\ mainOnce = EmptyBag
  /\ gzOrig = <<>>

RetryNext ==
  \/ RetryStage /\ UNCHANGED <<nvars, pvars, rvars, avars, cvars>>
  \/ RetryMerge /\ UNCHANGED <<nvars, pvars, rvars, avars, cvars>>
  \/ MergeDeltaDrop /\ UNCHANGED <<nvars, pvars, rvars, avars, cvars, hvars>>
  \/ MergeDeltaInterrupted /\ UNCHANGED <<nvars, pvars, rvars, avars, cvars, hvars>>
  \/ MergeDeltaReturn /\ UNCHANGED <<nvars, pvars, rvars, avars, cvars, hvars>>

SpecRetry == RetryInit /\ [][RetryNext]_vars

\* ---- one period folder whose normalisation is stopped and run again; the
\* members hold valid records and blank lines only
CrashMembers ==
  {g \in GzStates :
     \A n \in DOMAIN g : \A i \in 1..Len(g[n]) : g[n][i].kind \in {"object", "blank"}}

CrashInit ==
  /\ WInit /\ NInitOn(PipeFolders, CrashMembers) /\ PIdle /\ RIdle /\ AIdle /\ CIdle
  /\ retryFile = <<>>
  /\ retryCalls = 0
  /\ onceDone = FALSE
  /\ mainOnce = EmptyBag
  /\ gzOrig = gz

CrashNext ==
  \/ ProcessFolder(TRUE) /\ UNCHANGED <<wvars, pvars, rvars, avars, cvars, hvars>>
  \/ \E point \in InterruptPoints, k \in 0..(MaxLines * Cardinality(MemberNames)) :
       ProcessFolderInterrupted(point, k)
       /\ UNCHANGED <<wvars, pvars, rvars, avars, cvars, hvars>>

SpecCrash == CrashInit /\ [][CrashNext]_vars

\* ================================================================ claims
\* merge_delta has returned successfully (all three steps completed)
MergeReturnedOk == upc = "done" /\ uresult = "merge_ok"

NonKey(r) == [f \in DOMAIN r \ {"registration"} |-> r[f]]

\* C1: after a successful merge_delta, every staged key marked DELETED has no
\* row in main, and every other staged key has exactly one row in main whose
\* non-key columns equal a staged row's values.
C1_MergeCorrect ==
  MergeReturnedOk =>
    \A k \in KeysOf(batch) :
      IF \E d \in BagToSet(RowsOf(batch, k)) : d.modification = "DELETED"
      THEN RowsOf(main, k) = EmptyBag
      ELSE /\ BagCardinality(RowsOf(main, k)) = 1
           /\ \E m \in BagToSet(RowsOf(main, k)), d \in BagToSet(RowsOf(batch, k)) :
                NonKey(m) = NonKey(d)

\* C2: after every successful merge_delta the main table holds at most one
\* row per registration.
C2_MainUnique ==
  MergeReturnedOk => \A k \in Keys : BagCardinality(RowsOf(main, k)) <= 1

C5_DropAfterMerge ==
  [][/\ (upc' = "done" /\ uresult' = "merge_ok") => ~stagingExists'
     /\ (stagingExists /\ ~stagingExists') => upc = "merged"]_vars

\* a call staged rows, merged them and returned with staging gone
C5_Witness ==
  /\ MergeReturnedOk
  /\ batch # EmptyBag
  /\ ~stagingExists

\* C7: the output of process_folder is the concatenation, in name-sorted
\* member order, of every valid record of every member: a malformed entry
\* omits only itself, not the valid entries after it.
RECURSIVE ValidRecords(_, _)
ValidRecords(lines, date_str) ==
  IF lines = <<>> THEN <<>>
  ELSE (IF Head(lines).kind = "object"
        THEN <<TagDate(Head(lines).rec, date_str)>> ELSE <<>>)
       \o ValidRecords(Tail(lines), date_str)
RECURSIVE AllValidRecords(_, _, _)
AllValidRecords(names, members, date_str) ==
  IF names = <<>> THEN <<>>
  ELSE ValidRecords(members[Head(names)], date_str)
       \o AllValidRecords(Tail(names), members, date_str)
C7_EveryValidRecordWritten ==
  pfWrote =>
    outFile = AllValidRecords(SortedNames(DOMAIN gzBefore), gzBefore,
                              ExtractDateFromFolder(folderName).str)

\* the day before a calendar date, by the calendar's own rules
CalendarPrev(dt) ==
  IF dt.d > 1 THEN [d |-> dt.d - 1, m |-> dt.m, y |-> dt.y]
  ELSE IF dt.m > 1
       THEN [d |-> DaysInMonth(dt.y, dt.m - 1), m |-> dt.m - 1, y |-> dt.y]
       ELSE [d |-> 31, m |-> 12, y |-> dt.y - 1]

\* C8 (as claimed): every record written by process_folder carries the date
\* of the folder name minus one day; none is written with an empty or
\* different date.
C8_EveryRecordDated ==
  \A i \in 1..Len(outFile) :
    /\ outFile[i].date # <<>>
    /\ DateSuffixMatches(folderName)
    /\ outFile[i].date = Strftime(CalendarPrev(Strptime(DateSuffix(folderName))))

\* C8 (amended): for a folder whose name ends in a dd-mm-yyyy calendar date
\* every record written carries that date minus one day, across month, year
\* and leap-day boundaries; for a name without such a suffix every record is
\* written with an empty date; for a suffix that is no calendar date nothing
\* is written.
C8_DateRule ==
  /\ \A i \in 1..Len(outFile) :
       IF DateSuffixMatches(folderName)
       THEN outFile[i].date
              = Strftime(CalendarPrev(Strptime(DateSuffix(folderName))))
       ELSE outFile[i].date = <<>>
  /\ (DateSuffixMatches(folderName) /\ ~Strptime(DateSuffix(folderName)).ok)
       => ~outExists

\* a folder dated 01-01-2026 was processed and its records carry 31-12-2025
C8_Witness ==
  /\ DateSuffixMatches(folderName)
  /\ DateSuffix(folderName) = <<"0", "1", "-", "0", "1", "-", "2", "0", "2", "6">>
  /\ Len(outFile) > 0
  /\ outFile[1].date = <<"3", "1", "-", "1", "2", "-", "2", "0", "2", "5">>

\* C9 (as claimed): a further process_folder call on a period whose output
\* exists leaves the output unchanged and reads and rewrites no member,
\* whatever delete_originals was on the call before.
C9_SecondCallDoesNothing ==
  (Len(pfHist) >= 2 /\ outBefore.exists) =>
    /\ outExists /\ outFile = outBefore.file
    /\ pfReads = 0 /\ ~pfWrote

\* C9 (amended): a further call leaves the content of the output unchanged
\* for both settings; it reads and rewrites nothing only when the call
\* before deleted the originals, and after a call with delete_originals
\* False it reads every member again and rewrites the output.
C9_SecondCallSameOutput ==
  (Len(pfHist) >= 2 /\ outBefore.exists) =>
    /\ outExists /\ outFile = outBefore.file
    /\ pfHist[Len(pfHist) - 1] => (pfReads = 0 /\ ~pfWrote)
    /\ (~pfHist[Len(pfHist) - 1] /\ gzBefore # NoMembers) =>
         (pfReads = Cardinality(DOMAIN gzBefore) /\ pfWrote)

\* the first call kept the originals, and the second call read them again
\* and wrote the same records
C9_Witness ==
  /\ Len(pfHist) = 2 /\ ~pfHist[1]
  /\ outBefore.exists /\ outBefore.file # <<>>
  /\ pfReads > 0 /\ pfWrote
  /\ outFile = outBefore.file

\* C10 (as claimed): re-transferring a manifest all of whose entries have
\* their file at the destination issues zero network requests and changes no
\* file.
C10_NoNetworkRequest ==
  (dlResult # "none" /\ dlAllExisted) =>
    /\ reqs.token + reqs.manifest + reqs.download = 0
    /\ ~dlChanged

\* C10 (amended): such a re-transfer issues zero download requests and
\* changes no file, whatever the files hold; the manifest request of pull and
\* at most one token exchange are still issued.
C10_NoDownloadRequest ==
  (dlResult # "none" /\ dlAllExisted) =>
    /\ reqs.download = 0
    /\ ~dlChanged
    /\ reqs.manifest <= 1 /\ reqs.token <= 1
    /\ dlResult = "returned" => reqs.manifest = 1

\* a manifest with delta entries was re-transferred over files that are
\* truncated or foreign, and the call returned without a download
C10_Witness ==
  /\ dlResult = "returned" /\ dlAllExisted
  /\ ManifestGet(manifest, "delta") # <<>>
  /\ \E n \in DOMAIN files : files[n] \in {"truncated", "other"}
  /\ reqs.download = 0 /\ reqs.manifest = 1

\* C4: when a registration occurs more than once in a period, the occurrence
\* last in file-processing order determines that key's row in main once the
\* period is normalized, staged and merged: no row if it is a deletion, one
\* row with its values if it is a creation or an update.
LastIndexOf(f, k) ==
  CHOOSE i \in 1..Len(f) :
    /\ f[i].registration = k
    /\ \A j \in (i + 1)..Len(f) : f[j].registration # k
C4_LastOccurrenceWins ==
  (MergeReturnedOk /\ outExists /\ batch = BagOfSeq(outFile)) =>
    \A k \in {outFile[i].registration : i \in 1..Len(outFile)} :
      LET last == outFile[LastIndexOf(outFile, k)] IN
        /\ last.modification = "DELETED" => RowsOf(main, k) = EmptyBag
        /\ last.modification \in UpsertMods =>
             /\ BagCardinality(RowsOf(main, k)) = 1
             /\ \A m \in BagToSet(RowsOf(main, k)) :
                  \A f \in DOMAIN m \cap DOMAIN last : m[f] = last[f]

\* C6: in a weekly run over N >= 1 normalized files the first file is staged
\* in truncate mode, every later one in append mode, and exactly one merge
\* into main is executed.
C6_WeeklyStagesAllMergesOnce ==
  (rpc \in {"done", "failed"} /\ Len(runPaths) >= 1) =>
    /\ rpc = "done"
    /\ loads = [i \in 1..Len(runPaths) |->
                  IF i = 1 THEN "WRITE_TRUNCATE" ELSE "WRITE_APPEND"]
    /\ runMerges = 1

\* C11: download_latest_delta transfers at most one file per call, and that
\* file is the last entry of the manifest's delta list; when the delta list
\* is empty or missing it returns none and creates no local file.
C11_LatestDeltaOnly ==
  (dlOp = "download_latest_delta" /\ dlResult # "none") =>
    LET deltas == ManifestGet(manifest, "delta") IN
      /\ reqs.download <= 1
      /\ deltas = <<>> =>
           (dlValue = <<>> /\ files = filesBefore /\ reqs.download = 0)
      /\ deltas # <<>> =>
           LET last == deltas[Len(deltas)]
               name == Basename(last.filename)
           IN  /\ \A n \in DOMAIN files \cup DOMAIN filesBefore :
                    n # name => (/\ n \in DOMAIN files
                                 /\ n \in DOMAIN filesBefore
                                 /\ files[n] = filesBefore[n])
               /\ dlResult = "returned" =>
                    /\ dlValue = <<name>>
                    /\ name \in DOMAIN files
                    /\ reqs.download = 1 => files[name] = last.downloadUrl

\* a manifest of two deltas: the last one was transferred, the first was not
C11_Witness ==
  /\ dlOp = "download_latest_delta" /\ dlResult = "returned"
  /\ Len(ManifestGet(manifest, "delta")) = 2
  /\ reqs.download = 1
  /\ Basename(manifest.delta[2].filename) \in DOMAIN files
  /\ Basename(manifest.delta[1].filename) \notin DOMAIN files
  /\ files[Basename(manifest.delta[2].filename)] = manifest.delta[2].downloadUrl

\* C12: get_access_token with force_refresh=True never attempts silent
\* acquisition and always performs a client-credentials exchange; with
\* force_refresh=False an exchange is performed only when silent acquisition
\* yielded no token, and a token obtained silently is returned without any
\* exchange.
C12_ForceRefreshFlow ==
  authOp = "get_access_token" =>
    /\ gaExchange <= 1 /\ gaSilent <= 1
    /\ gaForce => (gaSilent = 0 /\ gaExchange = 1)
    /\ ~gaForce =>
         /\ gaExchange = 1 => gaSource # "silent"
         /\ gaSource = "silent" =>
              (gaSilent = 1 /\ gaExchange = 0 /\ gaReturn # "None")
         /\ gaSource # "silent" => gaExchange = 1

\* a forced call on a client whose cache holds an account: no silent
\* attempt, one exchange, a token returned
C12_Witness ==
  /\ authOp = "get_access_token" /\ gaForce
  /\ Accounts(cache) # {}
  /\ gaSilent = 0 /\ gaExchange = 1
  /\ gaSource = "exchange" /\ gaReturn # "None"

\* C13: whenever a get_access_token call returns a token obtained through a
\* successful exchange, the cache file exists and equals the serialization of
\* the in-memory token cache at that moment.
C13_ExchangePersisted ==
  (authOp = "get_access_token" /\ gaSource = "exchange") =>
    /\ cacheFile.kind # "absent"
    /\ cacheFile = Serialize(cache)

\* C14: after clear_cache returns, neither the cache file nor the in-memory
\* token cache holds any token, and the next get_access_token call is not
\* served from cached state.
C14_ClearLeavesNoToken ==
  [][/\ authOp' = "clear_cache" =>
          /\ cacheFile'.kind = "object" =>
               DOMAIN AccessTokens(cacheFile'.data) = {}
          /\ DOMAIN AccessTokens(cache') = {}
     /\ (authOp = "clear_cache" /\ authOp' = "get_access_token") =>
          gaSource' # "silent"]_vars

\* C15: _is_token_expired decides from the cache file alone: it reports
\* expired exactly when now >= expires_at - 60 for the persisted token, and
\* reports expired when the file is missing, unreadable or holds no access
\* token.
C15_ExpiryFromFile ==
  expResult # "none" =>
    /\ cacheFile.kind \in {"absent", "garbage", "nonobject", "unopenable"} =>
         expResult = "True"
    /\ cacheFile.kind = "object" =>
         LET tokens == AccessTokens(cacheFile.data) IN
           /\ tokens = <<>> => expResult = "True"
           /\ (Len(tokens) = 1 /\ tokens[1].expires_on.type \in {"number", "digits"}
               /\ tokens[1].expires_on.val # 0) =>
                (expResult = "True" <=> now >= tokens[1].expires_on.val - 60)

\* C16: when the client-credentials exchange returns an error or raises,
\* get_access_token returns no token after a single exchange attempt, and the
\* run that depends on it aborts in pull before the manifest request or any
\* download is issued.
C16_AuthFailureAborts ==
  (authOp = "get_access_token" /\ gaExchange >= 1 /\ gaSource # "exchange") =>
    /\ gaReturn = "None"
    /\ gaExchange = 1
    /\ dlResult = "raised"
    /\ reqs.token = 1 /\ reqs.manifest = 0 /\ reqs.download = 0
    /\ files = filesBefore
    /\ rpc = "failed" /\ rerr = "pull"

\* the exchange failed for a run whose manifest lists deltas: no token, no
\* manifest request, the run failed in its first step
C16_Witness ==
  /\ authOp = "get_access_token" /\ gaExchange = 1 /\ gaSource = "none"
  /\ gaReturn = "None"
  /\ ManifestGet(manifest, "delta") # <<>>
  /\ dlOp = "download_deltas" /\ dlResult = "raised"
  /\ reqs.manifest = 0 /\ reqs.download = 0
  /\ rpc = "failed"

\* C17: from a manifest whose delta list holds one entry for period
\* 10-01-2026 and an existing main table, a complete run (transfer,
\* normalize, stage, merge) terminates with main holding exactly the records
\* implied by that file, each dated 09-01-2026, and with staging absent.
C17_Date == <<"0", "9", "-", "0", "1", "-", "2", "0", "2", "6">>
C17_Records ==
  ReadMembers(SortedNames(DOMAIN ArchiveMembers("U1")), ArchiveMembers("U1"),
              C17_Date)
C17_EndToEnd ==
  (/\ rpc \in {"done", "failed"}
   /\ dlResult = "returned" /\ reqs.download = 1
   /\ rerr # "unzip") =>
    /\ rpc = "done"
    /\ ~stagingExists
    /\ \A i \in 1..Len(C17_Records) :
         LET rec == C17_Records[i] IN
           /\ BagCardinality(RowsOf(main, rec.registration)) = 1
           /\ \A m \in BagToSet(RowsOf(main, rec.registration)) :
                /\ m.make = rec.make
                /\ "date" \in DOMAIN m /\ m.date = C17_Date

\* C18: for any sequence of requests to /weekly-delta-merge at most one run
\* is active at a time, and no two stage/merge steps overlap.
C18_OneRunAtATime ==
  /\ Cardinality({r \in Requests : tpc[r] \in RunningSteps}) <= 1
  /\ Cardinality({r \in Requests : tpc[r] = "upload"}) <= 1

\* C19: within one run the steps execute in the order transfer,
\* normalization of every period, stage/merge per normalized file, removal of
\* that file; a normalized file is removed only after its stage/merge call
\* returned successfully; once a step fails no later step of the run executes
\* and no step is retried (the only step after a failure is the transfer of
\* a new run).
C19_StepOrder ==
  [][/\ rpc \in {"idle", "done", "failed"} => rpc' \in {rpc, "unzip", "failed"}
     /\ rpc = "unzip" => rpc' \in {"unzip", "process", "failed"}
     /\ rpc = "process" => rpc' \in {"process", "upload", "failed"}
     /\ rpc = "upload" => rpc' \in {"upload", "done", "failed"}
     /\ (rpc = "failed" /\ rpc' = "failed") =>
          (rerr' = "pull" /\ UNCHANGED <<dirs, outs, loads, runMerges>>)
     /\ files' # files => rpc \in {"idle", "done", "failed", "unzip"}
     /\ (rpc = "process" /\ rpc' = "upload") => (todo = <<>> /\ dirs = <<>>)
     /\ loads' # loads => (rpc = "upload" \/ loads' = <<>>)
     /\ \A f \in DOMAIN outs \ DOMAIN outs' :
          /\ rpc = "upload" /\ rpc' = "upload"
          /\ f = runPaths[ri]
          /\ Len(loads') = Len(loads) + 1]_vars

\* a run failed in its upload step: the normalized file it was about to
\* stage is still on disk, and every period had been normalized before
C19_Witness ==
  /\ rpc = "failed" /\ rerr = "TypeError"
  /\ runPaths # <<>> /\ ri = 1
  /\ runPaths[1] \in DOMAIN outs
  /\ dirs = <<>>
  /\ loads = <<>>

\* C20: when the staging load or the merge statement fails, merge_delta
\* surfaces the error, main is left exactly as it was before the call, and
\* rows a failed call left in staging are never merged by a later call: the
\* later call merges exactly the rows of its own file.
C20_FailedCallLeavesMain ==
  [][/\ (upc \in {"idle", "staged"} /\ upc' = "done") =>
          /\ uresult' = "merge_error"
          /\ main' = main
          /\ main' = mainBefore'
     /\ (upc = "staged" /\ upc' = "merged") =>
          /\ staging = batch
          /\ main' = MergeResult(main, batch)
     /\ (main' # main /\ upc' # "idle") => (upc = "staged" /\ upc' = "merged")]_vars

\* a call found acting rows of an earlier, failed call in staging, merged a
\* file that does not name their key, and left that key's main rows alone
C20_Witness ==
  /\ MergeReturnedOk
  /\ \E k \in leftKeys :
       /\ k \notin KeysOf(batch)
       /\ RowsOf(mainBefore, k) # EmptyBag
       /\ RowsOf(main, k) = RowsOf(mainBefore, k)
  /\ batch # EmptyBag
  /\ main # mainBefore

\* C21: merge_delta is safe to retry: once the MERGE statement of a
\* merge_delta(f) call has completed, every further merge_delta(f) call, after
\* a return or after an interruption between the MERGE statement and the
\* staging drop, leaves main equal to the result of that one merge.
C21_RetrySafe == onceDone => main = mainOnce

\* a second call found the staging rows an interrupted call had left, ran
\* its MERGE to the end on a file with upserts and a deletion, and returned
C21_Witness ==
  /\ retryCalls >= 2 /\ MergeReturnedOk
  /\ mainBefore = mainOnce /\ main = mainOnce
  /\ leftKeys # {}
  /\ \E d \in BagToSet(batch) :
       d.modification \in UpsertMods /\ RowsOf(main, d.registration) # EmptyBag
  /\ \E d \in BagToSet(batch) : d.modification = "DELETED"

\* C23: merge_delta changes only main rows whose registration occurs in the
\* staged batch: every main row whose registration is absent from staging is
\* left unchanged, and a staged DELETED key with no matching main row changes
\* nothing.
C23_MergeFrame ==
  upc \in {"merged", "done"} =>
    /\ \A k \in Keys \ KeysOf(batch) : RowsOf(main, k) = RowsOf(mainBefore, k)
    /\ \A k \in KeysOf(batch) :
         (/\ \A d \in BagToSet(RowsOf(batch, k)) : d.modification = "DELETED"
          /\ RowsOf(mainBefore, k) = EmptyBag)
         => RowsOf(main, k) = EmptyBag

\* a deletion of K1 was merged into a main table holding K2 only: the call
\* returned and main is as it was
C23_Witness ==
  /\ MergeReturnedOk
  /\ \E d \in BagToSet(batch) : d.registration = "K1" /\ d.modification = "DELETED"
  /\ KeysOf(batch) = {"K1"}
  /\ KeysOf(mainBefore) = {"K2"}
  /\ main = mainBefore

\* C22: in unzip_all an archive is removed only after its expansion into the
\* period directory has completed, and an archive whose destination directory
\* exists is neither expanded again nor removed; consequently, whenever
\* expansion is skipped for an existing directory, that directory holds the
\* archive's complete contents.
C22_SkippedMeansComplete ==
  [][(rpc = "unzip" /\ todo # <<>>) =>
       LET dest == Head(todo)
           zf   == ZipOf(dest)
       IN  /\ zf \notin DOMAIN files' =>
                /\ dest \notin DOMAIN dirs
                /\ dest \in DOMAIN dirs'
                /\ dirs'[dest] = ArchiveMembers(files[zf])
           /\ dest \in DOMAIN dirs => (files' = files /\ dirs' = dirs)
           /\ (dest \in DOMAIN dirs /\ IsArchive(files[zf])) =>
                dirs[dest] = ArchiveMembers(files[zf])]_vars

\* C24: normalization is crash-safe: when process_folder is stopped at any
\* point while handling a period and is then run again to completion, the
\* period's output file contains every valid record of all the members the
\* period had.
C24_CrashSafe ==
  pfResult = "output_file" =>
    BagOfSeq(AllValidRecords(SortedNames(DOMAIN gzOrig), gzOrig,
                             ExtractDateFromFolder(folderName).str))
      \sqsubseteq BagOfSeq(outFile)

====
